---- MODULE Spec2Model ----
(***************************************************************************)
(* Model of the Lightmap component (Source/Samples/78_Lightmap/            *)
(* Lightmap.cpp): one bake session driven by BakeTexture ("StartBake")     *)
(* and the E_ENDFRAME handler HandlePostRender ("Finalize").               *)
(*                                                                         *)
(* Strings are sequences of one-character strings, so that String::Find    *)
(* and the path concatenation of OutputFile are computed, not assumed.     *)
(* Object references are natural numbers, NULL is 0.  Materials live in a  *)
(* heap (materials) because the working material is mutated through an     *)
(* alias after it has been installed on the model.                         *)
(***************************************************************************)
EXTENDS Integers, Sequences, FiniteSets, TLC

\* ------------------------------------------------------------------ bounds
MaxBakes == 3
MaskBits == 3
MaxImageSize == 2

\* --------------------------------------------------------------- constants
NULL == 0
\* String::NPOS (0xffffffff): a value no index into a string can take.
NPOS == 2147483647
\* Lightmap.h is not part of the sources: the two masks are distinct single
\* bits, as the specification's "capture-only visibility flag" requires.
ViewMask_Normal == 1
ViewMask_Capture == 2

MODEL == 1

Str_NoTexture == <<"N","o","T","e","x","t","u","r","e">>
NoTextureBake == <<"L","i","g","h","t","m","a","p","/","T","e","c","h","n","i","q","u","e","s","/","N","o","T","e","x","t","u","r","e","B","a","k","e",".","x","m","l">>
DiffBake == <<"L","i","g","h","t","m","a","p","/","T","e","c","h","n","i","q","u","e","s","/","D","i","f","f","B","a","k","e",".","x","m","l">>
Str_node == <<"n","o","d","e">>
Str_bake_png == <<"_","b","a","k","e",".","p","n","g">>
Str_Slash == <<"/">>

\* ------------------------------------------------------------ input domains
Tech_Diff == <<"T","e","c","h","n","i","q","u","e","s","/","D","i","f","f",".","x","m","l">>
Tech_NoTexture == <<"T","e","c","h","n","i","q","u","e","s","/","N","o","T","e","x","t","u","r","e",".","x","m","l">>
Tech_notexture == <<"T","e","c","h","n","i","q","u","e","s","/","n","o","t","e","x","t","u","r","e",".","x","m","l">>
TechniqueNames == {Tech_Diff, Tech_NoTexture, Tech_notexture}

Dir_Bake == <<"B","a","k","e">>
Dir_BakeSlash == <<"B","a","k","e","/">>
FilePaths == {Dir_Bake, Dir_BakeSlash}

NodeIds == {7, 12}

\* World positions of the model's node and world bounding boxes of the model,
\* as offsets of the box from the node position.  Coordinates are even, so
\* that the halves taken by Center() and HalfSize() are exact.
ModelPositions == {<<0, 0, 0>>, <<2, -4, 6>>}
BoxShapes ==
    {[min |-> <<-2, -2, -4>>, max |-> <<2, 2, 4>>],
     [min |-> <<-2, -2, 0>>, max |-> <<6, 2, 4>>]}
Masks == 0 .. (2 ^ MaskBits - 1)
ImageSizes == 1 .. MaxImageSize

\* ------------------------------------------------------------ pure helpers
RECURSIVE BitOr(_, _)
BitOr(a, b) ==
    IF a = 0 THEN b
    ELSE IF b = 0 THEN a
    ELSE (IF a % 2 = 1 \/ b % 2 = 1 THEN 1 ELSE 0) + 2 * BitOr(a \div 2, b \div 2)

RECURSIVE BitAnd(_, _)
BitAnd(a, b) ==
    IF a = 0 \/ b = 0 THEN 0
    ELSE (IF a % 2 = 1 /\ b % 2 = 1 THEN 1 ELSE 0) + 2 * BitAnd(a \div 2, b \div 2)

VecAdd(a, b) == <<a[1] + b[1], a[2] + b[2], a[3] + b[3]>>

VecSub(a, b) == <<a[1] - b[1], a[2] - b[2], a[3] - b[3]>>

\* Multiplication by 0.5f.
Half(n) == IF n >= 0 THEN n \div 2 ELSE -((-n) \div 2)

\* BoundingBox::Center(): (max_ + min_) * 0.5f
Center(box) ==
    LET sum == VecAdd(box.max, box.min)
    IN  <<Half(sum[1]), Half(sum[2]), Half(sum[3])>>

\* BoundingBox::HalfSize(): (max_ - min_) * 0.5f
HalfSize(box) ==
    LET d == VecSub(box.max, box.min)
    IN  <<Half(d[1]), Half(d[2]), Half(d[3])>>

\* (float)n for an unsigned n: exact below 2^24, above it rounded to the
\* nearest representable value (ties to even).
RECURSIVE FloatUlp(_)
FloatUlp(n) == IF n < 16777216 THEN 1 ELSE 2 * FloatUlp(n \div 2)

ToFloat(n) ==
    LET u == FloatUlp(n)
        q == n \div u
        r == n % u
    IN  IF 2 * r < u THEN q * u
        ELSE IF 2 * r > u THEN (q + 1) * u
        ELSE IF q % 2 = 0 THEN q * u ELSE (q + 1) * u

MatchAt(s, sub, i) ==
    /\ i + Len(sub) <= Len(s)
    /\ \A j \in 1 .. Len(sub) : s[i + j] = sub[j]

\* String::Find(str) with its default arguments (startPos 0, case sensitive):
\* the 0-based index of the first occurrence, or NPOS.
Find(s, sub) ==
    LET hits == {i \in 0 .. Len(s) : MatchAt(s, sub, i)}
    IN  IF hits = {} THEN NPOS
        ELSE CHOOSE i \in hits : \A h \in hits : i <= h

Digits == <<"0","1","2","3","4","5","6","7","8","9">>

\* "%u" formatting of an unsigned value.
RECURSIVE ToStringU(_)
ToStringU(n) ==
    IF n < 10 THEN <<Digits[n + 1]>>
    ELSE ToStringU(n \div 10) \o <<Digits[(n % 10) + 1]>>

\* ToString("node%u_bake.png", id)
BakeFileName(id) == Str_node \o ToStringU(id) \o Str_bake_png

NoImage == [texture |-> NULL, live |-> FALSE]

\* --------------------------------------------------------------- the state
VARIABLES
    alive,            \* the Lightmap component exists
    node_,            \* Component::node_: id of the owning node, or NULL
    hasStaticModel,   \* the owning node holds a StaticModel component
    modelMaterial,    \* StaticModel::GetMaterial(): id into materials
    modelViewMask,    \* StaticModel::GetViewMask()
    modelWorldPos,    \* world position of the node holding the model
    worldBoundingBox, \* StaticModel::GetWorldBoundingBox()
    imageSizeArg,     \* the imageSize argument of the latest BakeTexture call
    materials,        \* material heap: id -> name of technique 0
    texWidth_, texHeight_, saveFile_, filepath_,
    staticModel_, origMaterial_,
    camNode_, camera_, viewport_, renderTexture_, renderSurface_,
    renderedImage_,
    subscribed,       \* an E_ENDFRAME handler of this component is registered
    sceneNodes,       \* "RenderCamera" children of the scene
    nodePositions,    \* world position of each "RenderCamera" node
    cameras,          \* camera components: node id -> camera settings
    viewports,        \* live Viewport objects
    textures,         \* live Texture2D objects: id -> size, surface binding
    files,            \* images written by SavePNG
    events,           \* E_LIGTHMAPDONE events sent: the P_NODE of each
    lastCall,         \* the operation that ran last
    lastOps,          \* the engine calls made by that operation, in order
    fault,            \* a null pointer or the destroyed component was used
    bakes,            \* number of rigs built so far (source of fresh ids)
    dupMat,           \* BakeTexture's local dupMat of the latest bake
    maskTagged,       \* the model's mask was last written by line 96 (not 141)
    preMaterial,      \* technique of the model's material on BakeTexture entry
    preViewMask,      \* the model's view mask on BakeTexture entry
    overlapped        \* some BakeTexture built a rig while already subscribed

vars == <<alive, node_, hasStaticModel, modelMaterial, modelViewMask, materials,
          modelWorldPos, worldBoundingBox, imageSizeArg, nodePositions,
          texWidth_, texHeight_, saveFile_, filepath_, staticModel_, origMaterial_,
          camNode_, camera_, viewport_, renderTexture_, renderSurface_,
          renderedImage_, subscribed, sceneNodes, cameras, viewports, textures,
          files, events, lastCall, lastOps, fault, bakes, dupMat, maskTagged,
          preMaterial, preViewMask, overlapped>>

World ==
    [alive |-> alive, node_ |-> node_, hasStaticModel |-> hasStaticModel,
     modelMaterial |-> modelMaterial, modelViewMask |-> modelViewMask,
     modelWorldPos |-> modelWorldPos, worldBoundingBox |-> worldBoundingBox,
     imageSizeArg |-> imageSizeArg, nodePositions |-> nodePositions,
     materials |-> materials, texWidth_ |-> texWidth_, texHeight_ |-> texHeight_,
     saveFile_ |-> saveFile_, filepath_ |-> filepath_, staticModel_ |-> staticModel_,
     origMaterial_ |-> origMaterial_, camNode_ |-> camNode_, camera_ |-> camera_,
     viewport_ |-> viewport_, renderTexture_ |-> renderTexture_,
     renderSurface_ |-> renderSurface_, renderedImage_ |-> renderedImage_,
     subscribed |-> subscribed, sceneNodes |-> sceneNodes, cameras |-> cameras,
     viewports |-> viewports, textures |-> textures, files |-> files,
     events |-> events, lastCall |-> lastCall, lastOps |-> lastOps,
     fault |-> fault, bakes |-> bakes, dupMat |-> dupMat, maskTagged |-> maskTagged,
     preMaterial |-> preMaterial, preViewMask |-> preViewMask,
     overlapped |-> overlapped]

Apply(w) ==
    /\ alive' = w.alive /\ node_' = w.node_ /\ hasStaticModel' = w.hasStaticModel
    /\ modelMaterial' = w.modelMaterial /\ modelViewMask' = w.modelViewMask
    /\ modelWorldPos' = w.modelWorldPos /\ worldBoundingBox' = w.worldBoundingBox
    /\ imageSizeArg' = w.imageSizeArg /\ nodePositions' = w.nodePositions
    /\ materials' = w.materials /\ texWidth_' = w.texWidth_
    /\ texHeight_' = w.texHeight_ /\ saveFile_' = w.saveFile_
    /\ filepath_' = w.filepath_ /\ staticModel_' = w.staticModel_
    /\ origMaterial_' = w.origMaterial_ /\ camNode_' = w.camNode_
    /\ camera_' = w.camera_ /\ viewport_' = w.viewport_
    /\ renderTexture_' = w.renderTexture_ /\ renderSurface_' = w.renderSurface_
    /\ renderedImage_' = w.renderedImage_ /\ subscribed' = w.subscribed
    /\ sceneNodes' = w.sceneNodes /\ cameras' = w.cameras
    /\ viewports' = w.viewports /\ textures' = w.textures /\ files' = w.files
    /\ events' = w.events /\ lastCall' = w.lastCall /\ lastOps' = w.lastOps
    /\ fault' = w.fault /\ bakes' = w.bakes /\ dupMat' = w.dupMat
    /\ maskTagged' = w.maskTagged /\ preMaterial' = w.preMaterial
    /\ preViewMask' = w.preViewMask /\ overlapped' = w.overlapped

\* ------------------------------------------------------- engine primitives
\* Sequencing of statements: the state w is evaluated once, then the step F
\* is applied to it.
Then(w, F(_)) == CHOOSE r \in {F(x) : x \in {w}} : TRUE

Log(w, op) == [w EXCEPT !.lastOps = Append(@, op)]

\* A member function running on a destroyed component uses freed memory.
Touch(w) == IF w.alive THEN w ELSE [w EXCEPT !.fault = TRUE]

\* p->... on a null pointer.
Deref(w, p) == IF p = NULL THEN [w EXCEPT !.fault = TRUE] ELSE w

\* Reference counting: a Texture2D lives while renderTexture_ holds it (its
\* RenderSurface lives and dies with it); a Viewport lives while viewport_ or
\* the surface of a live texture holds it.
Collect(w) ==
    LET liveTex == {t \in DOMAIN w.textures : t = w.renderTexture_}
        tex == [t \in liveTex |-> w.textures[t]]
        liveVp == {v \in w.viewports :
                      v = w.viewport_ \/ \E t \in liveTex : tex[t].viewport = v}
    IN  [w EXCEPT !.textures = tex, !.viewports = liveVp]

\* Material::Clone(): a new material object with the same technique.
Clone(w, src, new) == [w EXCEPT !.materials = (new :> w.materials[src]) @@ @]

\* -------------------------------------------------------- Lightmap methods
\* Variant: the half depth is added instead of subtracted.
CameraPosition_Behind(box) == VecAdd(Center(box), <<0, 0, HalfSize(box)[3]>>)

\* Lines 110-111: the camera position computed from the bounding box.
CameraPosition(box) == VecSub(Center(box), <<0, 0, HalfSize(box)[3]>>)

\* The statements of InitRenderSurface(), one step per object created.
CreateCamNode(w, box) ==
    LET k == w.bakes + 1
    IN  Log([w EXCEPT !.camNode_ = k, !.sceneNodes = @ \cup {k}, !.bakes = k,
                      !.nodePositions = (k :> CameraPosition(box)) @@ @],
            "CreateChild")

\* Variant: the ortho size is left at the constructor's 512.
CreateCamera_DefaultSize(w) ==
    LET k == w.camNode_
    IN  [w EXCEPT !.camera_ = k,
                  !.cameras = (k :> [orthographic |-> TRUE,
                                     orthoSize |-> <<ToFloat(512), ToFloat(512)>>,
                                     viewMask |-> ViewMask_Capture]) @@ @]

CreateCamera(w) ==
    LET k == w.camNode_
    IN  [w EXCEPT !.camera_ = k,
                  !.cameras = (k :> [orthographic |-> TRUE,
                                     orthoSize |-> <<ToFloat(w.texWidth_),
                                                     ToFloat(w.texHeight_)>>,
                                     viewMask |-> ViewMask_Capture]) @@ @]

CreateViewport(w) ==
    LET k == w.camNode_
    IN  Collect([w EXCEPT !.viewport_ = k, !.viewports = @ \cup {k}])

CreateRenderTexture(w) ==
    LET k  == w.camNode_
        w1 == Collect([w EXCEPT !.renderTexture_ = k,
                                !.textures = (k :> [width |-> w.texWidth_,
                                                    height |-> w.texHeight_,
                                                    viewport |-> NULL]) @@ @])
    IN  [w1 EXCEPT !.renderSurface_ = k, !.textures[k].viewport = w1.viewport_]

InitRenderSurface(w, box) ==
    LET Node(x) == CreateCamNode(x, box)
    IN  Then(Then(Then(Then(w, Node), CreateCamera), CreateViewport),
             CreateRenderTexture)

\* Variant: the two branches are exchanged.
ChooseBakeTechnique_Swapped(technique) ==
    IF Find(technique, Str_NoTexture) # NPOS THEN DiffBake ELSE NoTextureBake

\* The two fixed bake techniques, chosen from the name of technique 0.
ChooseBakeTechnique(technique) ==
    IF Find(technique, Str_NoTexture) # NPOS THEN NoTextureBake ELSE DiffBake

\* Lines 79-82: the two clones, the second installed on the model.
CloneMaterials(w) ==
    LET origId == 2 * w.bakes + 2
        dupId  == 2 * w.bakes + 3
        w1 == Deref(w, w.staticModel_)
        w2 == [Clone(w1, w.modelMaterial, origId) EXCEPT !.origMaterial_ = origId]
        w3 == [Clone(w2, w.modelMaterial, dupId) EXCEPT !.dupMat = dupId]
    IN  Log([w3 EXCEPT !.modelMaterial = dupId], "SetMaterial")

\* Lines 84-93: the bake technique replaces technique 0 of dupMat.
SetBakeTechnique(w) ==
    Log([w EXCEPT !.materials[w.dupMat] = ChooseBakeTechnique(w.materials[w.dupMat])],
        "SetTechnique")

\* Variant: the capture flag replaces the model's view mask.
TagModel_Overwrite(w) ==
    Log([w EXCEPT !.modelViewMask = ViewMask_Capture, !.maskTagged = TRUE],
        "SetViewMask")

\* Line 96: the capture flag is added to the model's view mask.
TagModel(w) ==
    Log([w EXCEPT !.modelViewMask = BitOr(@, ViewMask_Capture), !.maskTagged = TRUE],
        "SetViewMask")

\* Line 100.
SubscribeToEvent(w) == Log([w EXCEPT !.subscribed = TRUE], "SubscribeToEvent")

\* What the model looked like on entry, for the claims about restoring it.
RecordEntry(w) ==
    [w EXCEPT !.preMaterial = w.materials[w.modelMaterial],
              !.preViewMask = w.modelViewMask,
              !.overlapped = @ \/ w.subscribed]

\* The body guarded by "if (staticModel_)".
BakeTextureBody(w) ==
    LET Rig(x) == InitRenderSurface(x, x.worldBoundingBox)
    IN  Then(Then(Then(Then(Then(Then(w, RecordEntry), CloneMaterials),
                            SetBakeTechnique), TagModel), Rig), SubscribeToEvent)

\* Variant: the body runs without the "if (staticModel_)" guard.
BakeTexture_NoModelCheck(w, filepath, imageSize) ==
    LET w0 == [Touch(w) EXCEPT !.lastOps = <<>>, !.lastCall = "BakeTexture"]
        w1 == [w0 EXCEPT !.texWidth_ = imageSize, !.texHeight_ = imageSize,
                         !.filepath_ = filepath, !.imageSizeArg = imageSize]
    IN  IF w1.node_ = NULL THEN w1
        ELSE BakeTextureBody(
                 [w1 EXCEPT !.staticModel_ = IF w1.hasStaticModel THEN MODEL ELSE NULL])

\* Variant: a call made while a capture is pending is refused.
BakeTexture_Guarded(w, filepath, imageSize) ==
    LET w0 == [Touch(w) EXCEPT !.lastOps = <<>>, !.lastCall = "BakeTexture"]
        w1 == [w0 EXCEPT !.texWidth_ = imageSize, !.texHeight_ = imageSize,
                         !.filepath_ = filepath, !.imageSizeArg = imageSize]
    IN  IF w.subscribed THEN w0
        ELSE IF w1.node_ = NULL THEN w1
        ELSE
        LET w2 == [w1 EXCEPT !.staticModel_ = IF w1.hasStaticModel THEN MODEL ELSE NULL]
        IN  IF w2.staticModel_ = NULL THEN w2 ELSE BakeTextureBody(w2)

BakeTexture(w, filepath, imageSize) ==
    LET w0 == [Touch(w) EXCEPT !.lastOps = <<>>, !.lastCall = "BakeTexture"]
        w1 == [w0 EXCEPT !.texWidth_ = imageSize, !.texHeight_ = imageSize,
                         !.filepath_ = filepath, !.imageSizeArg = imageSize]
    IN  IF w1.node_ = NULL THEN w1
        ELSE
        LET w2 == [w1 EXCEPT !.staticModel_ = IF w1.hasStaticModel THEN MODEL ELSE NULL]
        IN  IF w2.staticModel_ = NULL THEN w2 ELSE BakeTextureBody(w2)

GetImage(w) ==
    LET w1 == Deref(Touch(w), w.renderTexture_)
    IN  Log([w1 EXCEPT !.renderedImage_ =
                 [texture |-> w.renderTexture_,
                  live |-> w.renderTexture_ \in DOMAIN w.textures]], "GetImage")

\* Variant: only the material is put back.
RestoreStaticModel_MaterialOnly(w) ==
    LET w1 == Deref(Touch(w), w.staticModel_)
    IN  Log([w1 EXCEPT !.modelMaterial = w1.origMaterial_], "SetMaterial")

RestoreStaticModel(w) ==
    LET w1 == Deref(Touch(w), w.staticModel_)
        w2 == Log([w1 EXCEPT !.modelMaterial = w1.origMaterial_], "SetMaterial")
    IN  Log([w2 EXCEPT !.modelViewMask = ViewMask_Normal, !.maskTagged = FALSE],
            "SetViewMask")

\* The statements of Stop(), one step each.
RemoveCamNode(w) ==
    LET w1 == Deref(Touch(w), w.camNode_)
    IN  Log([w1 EXCEPT !.sceneNodes = @ \ {w.camNode_},
                       !.nodePositions = [n \in (DOMAIN @) \ {w.camNode_} |-> @[n]],
                       !.cameras = [n \in (DOMAIN @) \ {w.camNode_} |-> @[n]]],
            "Remove")

ClearCamNode(w) == Collect([w EXCEPT !.camNode_ = NULL])

ClearViewport(w) == Collect([w EXCEPT !.viewport_ = NULL])

ClearRenderSurface(w) == Collect([w EXCEPT !.renderSurface_ = NULL])

ClearRenderTexture(w) == Collect([w EXCEPT !.renderTexture_ = NULL])

\* Variant: the call leaves the handler registered.
UnsubscribeFromEvent_Noop(w) == Log(w, "UnsubscribeFromEvent")

UnsubscribeFromEvent(w) == Log([w EXCEPT !.subscribed = FALSE], "UnsubscribeFromEvent")

\* Variant: the render texture reference is not cleared.
Stop_KeepsTexture(w) ==
    Then(Then(Then(Then(Then(w, RemoveCamNode), ClearCamNode), ClearViewport),
              ClearRenderSurface), UnsubscribeFromEvent)

\* Variant: the E_ENDFRAME handler stays registered.
Stop_NoUnsubscribe(w) ==
    Then(Then(Then(Then(Then(w, RemoveCamNode), ClearCamNode), ClearViewport),
              ClearRenderSurface), ClearRenderTexture)

Stop(w) ==
    Then(Then(Then(Then(Then(Then(w, RemoveCamNode), ClearCamNode), ClearViewport),
                   ClearRenderSurface), ClearRenderTexture), UnsubscribeFromEvent)

\* Variant: the destructor tears the rig down.
Destroy_RemovesRig(w) ==
    Collect([w EXCEPT !.alive = FALSE, !.subscribed = FALSE,
                      !.sceneNodes = @ \ {w.camNode_},
                      !.nodePositions = [n \in (DOMAIN @) \ {w.camNode_} |-> @[n]],
                      !.cameras = [n \in (DOMAIN @) \ {w.camNode_} |-> @[n]],
                      !.staticModel_ = NULL, !.origMaterial_ = NULL,
                      !.camNode_ = NULL, !.camera_ = NULL, !.viewport_ = NULL,
                      !.renderTexture_ = NULL, !.renderSurface_ = NULL,
                      !.renderedImage_ = NoImage])

\* ~Lightmap() and the destructors of the bases and members: the handler is
\* unregistered and the references the component held are dropped.  The camera
\* node is still a child of the scene.
Destroy(w) ==
    Collect([w EXCEPT !.alive = FALSE, !.subscribed = FALSE,
                      !.staticModel_ = NULL, !.origMaterial_ = NULL,
                      !.camNode_ = NULL, !.camera_ = NULL, !.viewport_ = NULL,
                      !.renderTexture_ = NULL, !.renderSurface_ = NULL,
                      !.renderedImage_ = NoImage])

\* listenerDeletes: the E_LIGTHMAPDONE listener removes this component.
SendMsg(w, listenerDeletes) ==
    LET w1 == Log([Touch(w) EXCEPT !.events = Append(@, w.node_)], "SendEvent")
    IN  IF listenerDeletes /\ w1.alive THEN Destroy(w1) ELSE w1

OutputFile(w) ==
    LET w0 == Touch(w)
    IN  IF w0.saveFile_
        THEN LET w1   == Deref(w0, w0.node_)
                 name == BakeFileName(w1.node_)
                 path == w1.filepath_ \o name
                 w2   == Deref(w1, w1.renderedImage_.texture)
             IN  Log([w2 EXCEPT !.files = @ \cup {[path |-> path,
                                                    image |-> w2.renderedImage_]}],
                     "SavePNG")
        ELSE w0

\* Entry of the E_ENDFRAME handler.
BeginHandler(w) == [w EXCEPT !.lastOps = <<>>, !.lastCall = "HandlePostRender"]

\* Variant: the rig is torn down before the image is read back.
HandlePostRender_StopFirst(w, listenerDeletes) ==
    LET Send(x) == SendMsg(x, listenerDeletes)
    IN  Then(Then(Then(Then(Then(Then(w, BeginHandler), Stop), GetImage),
                       RestoreStaticModel), OutputFile), Send)

\* Variant: the event is sent before the file is written.
HandlePostRender_SendFirst(w, listenerDeletes) ==
    LET Send(x) == SendMsg(x, listenerDeletes)
    IN  Then(Then(Then(Then(Then(Then(w, BeginHandler), GetImage), RestoreStaticModel),
                       Stop), Send), OutputFile)

\* Variant: the handler returns after restoring the model.
HandlePostRender_ReturnsEarly(w, listenerDeletes) ==
    Then(Then(Then(w, BeginHandler), GetImage), RestoreStaticModel)

HandlePostRender(w, listenerDeletes) ==
    LET Send(x) == SendMsg(x, listenerDeletes)
    IN  Then(Then(Then(Then(Then(Then(w, BeginHandler), GetImage), RestoreStaticModel),
                       Stop), OutputFile), Send)

\* ------------------------------------------------------------------ actions
Init ==
    /\ alive = TRUE
    /\ node_ \in NodeIds \cup {NULL}
    /\ hasStaticModel \in (IF node_ = NULL THEN {FALSE} ELSE BOOLEAN)
    /\ modelMaterial = 1
    /\ modelViewMask \in Masks
    /\ modelWorldPos \in ModelPositions
    /\ \E b \in BoxShapes :
           worldBoundingBox = [min |-> VecAdd(modelWorldPos, b.min),
                               max |-> VecAdd(modelWorldPos, b.max)]
    /\ imageSizeArg = 512
    /\ nodePositions = <<>>
    /\ \E t \in TechniqueNames : materials = (1 :> t)
    /\ texWidth_ = 512 /\ texHeight_ = 512 /\ saveFile_ = TRUE
    /\ filepath_ = <<>>
    /\ staticModel_ = NULL /\ origMaterial_ = NULL
    /\ camNode_ = NULL /\ camera_ = NULL /\ viewport_ = NULL
    /\ renderTexture_ = NULL /\ renderSurface_ = NULL
    /\ renderedImage_ = NoImage
    /\ subscribed = FALSE
    /\ sceneNodes = {} /\ cameras = <<>> /\ viewports = {} /\ textures = <<>>
    /\ files = {} /\ events = <<>>
    /\ lastCall = "Lightmap" /\ lastOps = <<>> /\ fault = FALSE
    /\ bakes = 0 /\ dupMat = NULL /\ maskTagged = FALSE
    /\ preMaterial = <<>> /\ preViewMask = 0 /\ overlapped = FALSE

\* The application calls BakeTexture (StartBake).
StartBake ==
    /\ alive
    /\ bakes < MaxBakes
    /\ \E filepath \in FilePaths, imageSize \in ImageSizes :
           \E w \in {BakeTexture(World, filepath, imageSize)} : Apply(w)

\* The engine sends E_ENDFRAME; the handler runs if it is registered.
EndFrame ==
    IF alive /\ subscribed
    THEN \E listenerDeletes \in BOOLEAN :
             \E w \in {HandlePostRender(World, listenerDeletes)} : Apply(w)
    ELSE \E w \in {[World EXCEPT !.lastOps = <<>>, !.lastCall = "EndFrame"]} : Apply(w)

\* The application removes the component (or its node) from outside.
DestroyComponent ==
    /\ alive
    /\ \E w \in {[Destroy(World) EXCEPT !.lastOps = <<>>, !.lastCall = "~Lightmap"]} :
           Apply(w)

Next == StartBake \/ EndFrame \/ DestroyComponent

Spec == Init /\ [][Next]_vars

\* Behaviours in which end-of-frame signals keep being delivered and nobody
\* destroys the component from outside.
NextLive == StartBake \/ EndFrame

LiveSpec == Init /\ [][NextLive]_vars /\ WF_vars(EndFrame)

TypeOK ==
    /\ alive \in BOOLEAN /\ subscribed \in BOOLEAN /\ fault \in BOOLEAN
    /\ node_ \in NodeIds \cup {NULL}
    /\ modelViewMask \in Masks
    /\ modelMaterial \in DOMAIN materials
    /\ bakes \in 0 .. MaxBakes

\* ------------------------------------------------------ shared vocabulary
Capturing == alive /\ subscribed

\* The last operation was a Finalize (a run of HandlePostRender).
Finalized == lastCall = "HandlePostRender"

\* The last operation was a BakeTexture that got past both guards.
Started == lastCall = "BakeTexture" /\ lastOps # <<>>

AnyRigObject ==
    \/ sceneNodes # {} \/ DOMAIN cameras # {}
    \/ viewports # {} \/ DOMAIN textures # {}

\* The rig the session references exists in full.
SessionRig ==
    /\ camNode_ # NULL /\ camNode_ \in sceneNodes
    /\ camera_ \in DOMAIN cameras
    /\ viewport_ # NULL /\ viewport_ \in viewports
    /\ renderTexture_ # NULL /\ renderTexture_ \in DOMAIN textures
    /\ renderSurface_ = renderTexture_

NoSessionRig ==
    /\ camNode_ = NULL /\ viewport_ = NULL
    /\ renderTexture_ = NULL /\ renderSurface_ = NULL
    /\ viewports = {} /\ DOMAIN textures = {}

FinalizeOrder ==
    <<"GetImage", "SetMaterial", "SetViewMask", "Remove", "UnsubscribeFromEvent",
      "SavePNG", "SendEvent">>

\* ----------------------------------------------------------------- claims

\* C1 (as stated): after StartBake followed by Finalize the model's material
\* equals in value the material it had immediately before StartBake, and its
\* view mask equals the mask it had immediately before StartBake.
C1_RestoredToPreBake ==
    Finalized =>
        /\ materials[modelMaterial] = preMaterial
        /\ modelViewMask = preViewMask

C3_FinalizeRemovesEveryRig ==
    [][ /\ Finalized' =>
            /\ Capturing
            /\ Len(events') = Len(events) + 1
            /\ ~AnyRigObject'
        /\ (lastCall' = "EndFrame") => events' = events ]_vars

\* C3 (amended): the end-of-frame signal after a StartBake runs Finalize,
\* after which the rig objects of the most recent StartBake no longer exist
\* and exactly one more notification, carrying the owning node, has been
\* delivered; every other end-of-frame signal delivers none, so there are
\* never more notifications than StartBakes that built a rig.
C3_FinalizeOnceThenSilent ==
    /\ [][ /\ Finalized' =>
               /\ Capturing
               /\ events' = Append(events, node_)
               /\ ~subscribed'
               /\ camNode_ \notin sceneNodes'
               /\ viewports' = {} /\ DOMAIN textures' = {}
           /\ (lastCall' = "EndFrame") => events' = events ]_vars
    /\ [](Len(events) <= bakes)

C3_Witness ==
    /\ lastCall = "EndFrame" /\ alive /\ Len(events) = 1 /\ bakes = 1
    /\ ~AnyRigObject

\* C4: every Finalize makes its engine calls in the order read-back, restore,
\* teardown, file write, notification; the image is read from a render
\* target that still exists, and the file written holds that image.
C4_FinalizeOrder ==
    /\ Finalized => lastOps = FinalizeOrder
    /\ Finalized => [texture |-> bakes, live |-> TRUE] \in {f.image : f \in files}
    /\ \A f \in files : f.image.live /\ f.image.texture # NULL

C4_Witness ==
    /\ Finalized /\ Cardinality(files) = 2 /\ renderTexture_ = NULL

\* C5: the notification is the last thing a Finalize does: nothing follows
\* SendEvent in the handler, and the component is never used after a
\* listener destroyed it.
C5_NotifyLast ==
    /\ ~fault
    /\ Finalized =>
           /\ lastOps # <<>>
           /\ \A i \in 1 .. Len(lastOps) :
                  lastOps[i] = "SendEvent" <=> i = Len(lastOps)

C5_Witness ==
    /\ Finalized /\ ~alive /\ Len(events) = 1 /\ files # {}

\* C6: a BakeTexture on a component without a node, or on a node without a
\* StaticModel, creates no rig, registers no handler, leaves the model and
\* the scene as they were and raises no fault; no notification is ever sent
\* for it, whatever end-of-frame signals follow.
NoModel == node_ = NULL \/ ~hasStaticModel

C6_NoModelNoOp ==
    /\ [][ (lastCall' = "BakeTexture" /\ NoModel) =>
               UNCHANGED <<modelMaterial, modelViewMask, materials, sceneNodes,
                           cameras, viewports, textures, subscribed, events,
                           files, fault, camNode_, camera_, viewport_,
                           renderTexture_, renderSurface_, origMaterial_, bakes>> ]_vars
    /\ [](NoModel => (events = <<>> /\ ~subscribed /\ ~AnyRigObject /\ ~fault))

C6_Witness ==
    /\ NoModel /\ node_ # NULL /\ lastCall = "EndFrame"
    /\ filepath_ # <<>> /\ texWidth_ = 1 /\ events = <<>>

\* Substring tests used to state C7.
Contains(s, sub) ==
    \E i \in 1 .. (Len(s) - Len(sub) + 1) : SubSeq(s, i, i + Len(sub) - 1) = sub

UpperCase == <<"A","B","C","D","E","F","G","H","I","J","K","L","M","N","O","P","Q","R","S","T","U","V","W","X","Y","Z">>
LowerCase == <<"a","b","c","d","e","f","g","h","i","j","k","l","m","n","o","p","q","r","s","t","u","v","w","x","y","z">>

ToLower(s) ==
    [i \in 1 .. Len(s) |->
        IF \E k \in 1 .. 26 : UpperCase[k] = s[i]
        THEN LowerCase[CHOOSE k \in 1 .. 26 : UpperCase[k] = s[i]]
        ELSE s[i]]

\* C7 (as stated): StartBake installs NoTextureBake when the original
\* technique name contains "NoTexture" under a case-insensitive match, and
\* DiffBake otherwise.
C7_CaseInsensitiveChoice ==
    Started =>
        materials[modelMaterial] =
            IF Contains(ToLower(preMaterial), ToLower(Str_NoTexture))
            THEN NoTextureBake ELSE DiffBake

\* C7 (amended): StartBake installs NoTextureBake on the working material
\* when the original technique name contains "NoTexture" exactly as spelled
\* (case-sensitive), and DiffBake otherwise; the saved material keeps the
\* original technique.
C7_CaseSensitiveChoice ==
    Started =>
        /\ modelMaterial = dupMat
        /\ materials[modelMaterial] =
               IF Contains(preMaterial, Str_NoTexture) THEN NoTextureBake ELSE DiffBake
        /\ materials[origMaterial_] = preMaterial

C7_Witness ==
    /\ Started /\ preMaterial = Tech_notexture
    /\ materials[modelMaterial] = DiffBake

\* C8 (as stated): Finalize writes the image, the persistence flag being set,
\* to exactly filepath + "/" + "node" + ID + "_bake.png"; the flag is never
\* cleared.
C8_PathInsideDirectory ==
    /\ saveFile_
    /\ Finalized =>
           (filepath_ \o Str_Slash \o Str_node \o ToStringU(node_) \o Str_bake_png)
               \in {f.path : f \in files}

\* C9: the material and view-mask mutations of the model are paired: the
\* model carries the working material iff its mask was tagged by the session,
\* a tagged mask has the capture bit, a reverted mask has not, and every
\* operation sets the material as often as it sets the mask.
Count(seq, x) == Cardinality({i \in 1 .. Len(seq) : seq[i] = x})

C9_MutationsPaired ==
    /\ (dupMat # NULL /\ modelMaterial = dupMat) <=> maskTagged
    /\ maskTagged => BitAnd(modelViewMask, ViewMask_Capture) = ViewMask_Capture
    /\ (~maskTagged /\ bakes > 0) => BitAnd(modelViewMask, ViewMask_Capture) = 0
    /\ Count(lastOps, "SetMaterial") = Count(lastOps, "SetViewMask")

C9_Witness ==
    /\ Finalized /\ ~maskTagged /\ modelMaterial # dupMat
    /\ BitAnd(preViewMask, ViewMask_Capture) = ViewMask_Capture
    /\ BitAnd(modelViewMask, ViewMask_Capture) = 0

\* C10: when end-of-frame signals keep coming and nobody destroys the
\* component from outside, a session that is Capturing always reaches a
\* Finalize that made every one of its calls, and no Finalize stops half way.
C10_BakeCompletes ==
    /\ Capturing ~> (~subscribed /\ Finalized /\ lastOps = FinalizeOrder /\ ~fault)
    /\ [](Finalized => (lastOps = FinalizeOrder /\ ~subscribed))

C10_Witness ==
    /\ Finalized /\ lastOps = FinalizeOrder /\ Len(events) = 2 /\ alive /\ ~overlapped

\* C11: the component has an E_ENDFRAME handler registered exactly while it
\* is Capturing (it lives and references a camera node); only BakeTexture
\* registers it, the Finalize it triggers removes it before returning, so no
\* Finalize runs without a StartBake of its own, and an end-of-frame signal in
\* Idle changes nothing in the session, the model or the scene.
SessionModelScene ==
    <<alive, node_, hasStaticModel, modelMaterial, modelViewMask, materials,
      modelWorldPos, worldBoundingBox, texWidth_, texHeight_, saveFile_, filepath_,
      staticModel_, origMaterial_, camNode_, camera_, viewport_, renderTexture_,
      renderSurface_, renderedImage_, subscribed, sceneNodes, nodePositions,
      cameras, viewports, textures, files, events, fault, bakes>>

C11_OneRegistrationWhileCapturing ==
    /\ [](subscribed <=> (alive /\ camNode_ # NULL))
    /\ [][ /\ Finalized' => (subscribed /\ ~subscribed' /\ Len(events') <= bakes')
           /\ (subscribed' /\ ~subscribed) => lastCall' = "BakeTexture"
           /\ (lastCall' = "EndFrame") => UNCHANGED SessionModelScene ]_vars

C11_Witness ==
    /\ lastCall = "EndFrame" /\ alive /\ ~subscribed
    /\ overlapped /\ bakes = 2 /\ Len(events) = 1

\* C12 (as stated): in Idle after a completed bake the session holds no
\* reference to a saved material, a working material, a rig object or a
\* result image.
C12_OwnsNothingAfterFinalize ==
    (alive /\ ~subscribed /\ Finalized) =>
        /\ origMaterial_ = NULL
        /\ renderedImage_ = NoImage
        /\ modelMaterial # dupMat
        /\ camNode_ = NULL /\ camera_ = NULL /\ viewport_ = NULL
        /\ renderTexture_ = NULL /\ renderSurface_ = NULL

\* C13: once the component is destroyed no Finalize runs; a component
\* destroyed while Capturing leaves its camera node in the scene, and from
\* then on the scene keeps that node, no file is written and no notification
\* is sent.
C13_DestroyedWhileCapturingLeaks ==
    [][ /\ (Capturing /\ lastCall' = "~Lightmap") =>
               /\ ~alive' /\ ~subscribed'
               /\ camNode_ \in sceneNodes'
               /\ files' = files /\ events' = events
        /\ ~alive =>
               /\ lastCall' # "HandlePostRender"
               /\ UNCHANGED <<alive, sceneNodes, nodePositions, cameras, files, events,
                              modelMaterial, modelViewMask>> ]_vars

C13_Witness ==
    /\ ~alive /\ lastCall = "EndFrame" /\ sceneNodes = {1}
    /\ files = {} /\ events = <<>>

\* C14 (as stated): the capture camera is placed at P - (0,0,h), P the world
\* position of the model and h the half depth of its world bounding box,
\* whatever the box.
HalfDepth == Half(worldBoundingBox.max[3] - worldBoundingBox.min[3])

C14_CameraAtModelPosition ==
    Started => nodePositions[camNode_] = VecSub(modelWorldPos, <<0, 0, HalfDepth>>)

\* C14 (amended): the capture camera is placed at C - (0,0,h), C the centre
\* of the model's world bounding box: its x and y are those of the centre and
\* its z is the box's minimum z; this is P - (0,0,h) when the box is centred
\* at P.
C14_CameraAtBoxFront ==
    Started =>
        LET pos == nodePositions[camNode_]
            box == worldBoundingBox
        IN  /\ 2 * pos[1] = box.min[1] + box.max[1]
            /\ 2 * pos[2] = box.min[2] + box.max[2]
            /\ pos[3] = box.min[3]
            /\ (\A i \in 1 .. 3 : 2 * modelWorldPos[i] = box.min[i] + box.max[i])
                   => pos = VecSub(modelWorldPos, <<0, 0, HalfDepth>>)

C14_Witness ==
    /\ Started /\ modelWorldPos = <<2, -4, 6>>
    /\ worldBoundingBox = [min |-> <<0, -6, 6>>, max |-> <<8, -2, 10>>]
    /\ nodePositions[camNode_] = <<4, -4, 6>>

BakeTechniques == {NoTextureBake, DiffBake}

C16_OverlappingStartBake ==
    /\ [][ (Capturing /\ ~NoModel /\ lastCall' = "BakeTexture") =>
               /\ bakes' = bakes + 1 /\ overlapped'
               /\ camNode_' # camNode_ /\ {camNode_, camNode_'} \subseteq sceneNodes'
               /\ modelMaterial = dupMat
               /\ origMaterial_' # origMaterial_
               /\ materials'[origMaterial_'] = materials[modelMaterial]
               /\ materials'[origMaterial_'] \in BakeTechniques ]_vars
    /\ []((overlapped /\ Finalized) =>
               /\ sceneNodes # {} /\ camNode_ \notin sceneNodes
               /\ materials[modelMaterial] \in BakeTechniques
               /\ materials[modelMaterial] # materials[1])

C16_Witness ==
    /\ overlapped /\ Finalized /\ alive /\ sceneNodes = {1}
    /\ materials[1] = Tech_Diff /\ materials[modelMaterial] = DiffBake

\* C17: while Capturing the camera's view mask is exactly the capture flag and
\* the model's mask is its mask on entry with the capture flag added: the
\* model is visible to the camera, keeps every bit it had, and no mask without
\* the capture flag is visible to the camera.
MaskBit(m, i) == (m \div (2 ^ i)) % 2 = 1

\* Drawables are rendered by a camera when the two view masks share a bit.
Visible(objectMask, cameraMask) ==
    \E i \in 0 .. (MaskBits - 1) : MaskBit(objectMask, i) /\ MaskBit(cameraMask, i)

C17_CaptureMasks ==
    Capturing =>
        LET camMask == cameras[camera_].viewMask
        IN  /\ camMask = ViewMask_Capture
            /\ \A i \in 0 .. (MaskBits - 1) :
                   MaskBit(modelViewMask, i) <=>
                       (MaskBit(preViewMask, i) \/ MaskBit(ViewMask_Capture, i))
            /\ Visible(modelViewMask, camMask)
            /\ \A m \in Masks :
                   BitAnd(m, ViewMask_Capture) # ViewMask_Capture => ~Visible(m, camMask)

C17_Witness ==
    /\ Capturing /\ preViewMask = 5 /\ modelViewMask = 7
    /\ cameras[camera_].viewMask = 2

====
